---- MODULE Spec2Model ----
(***************************************************************************)
(* Job matching system: normalisation / deduplication of job records and   *)
(* the similarity ranker.                                                  *)
(*                                                                         *)
(* Text is a sequence of atoms.  An atom is a literal piece of text that   *)
(* none of the modelled string operations splits: one letter, one          *)
(* whitespace character, "<", ">", an HTML entity, a title prefix, or a    *)
(* word of letters.  The number of characters of a text is the sum of the  *)
(* lengths of its atoms.                                                   *)
(***************************************************************************)
EXTENDS Integers, Sequences, FiniteSets, TLC

(***************************************************************************)
(* Bounds of the model.                                                    *)
(***************************************************************************)
MaxJobs == 2

(***************************************************************************)
(* Text primitives (Python str methods and re.sub calls used by the code). *)
(***************************************************************************)
Word25 == "wwwwwwwwwwwwwwwwwwwwwwwww"

IsSpace(c) == c \in {" ", "\t"}

LowerChar(c) ==
    CASE c = "A" -> "a"
      [] c = "B" -> "b"
      [] c = "C" -> "c"
      [] c = "Apply Now" -> "apply now"
      [] c = "Apply" -> "apply"
      [] c = "NOW" -> "now"
      [] c = "Job:" -> "job:"
      [] c = "Position:" -> "position:"
      [] c = "Unknown Position" -> "unknown position"
      [] OTHER -> c

lower(s) == [i \in 1..Len(s) |-> LowerChar(s[i])]

RECURSIVE lstrip(_)
lstrip(s) ==
    IF s = <<>> THEN <<>>
    ELSE IF IsSpace(Head(s)) THEN lstrip(Tail(s)) ELSE s

RECURSIVE rstrip(_)
rstrip(s) ==
    IF s = <<>> THEN <<>>
    ELSE IF IsSpace(s[Len(s)]) THEN rstrip(SubSeq(s, 1, Len(s) - 1)) ELSE s

strip(s) == rstrip(lstrip(s))

RECURSIVE StrLen(_)
StrLen(s) == IF s = <<>> THEN 0 ELSE Len(Head(s)) + StrLen(Tail(s))

\* re.sub(r'\s+', ' ', text)
RECURSIVE CollapseWhitespace(_)
CollapseWhitespace(s) ==
    IF s = <<>> THEN <<>>
    ELSE IF IsSpace(Head(s)) THEN <<" ">> \o CollapseWhitespace(lstrip(s))
    ELSE <<Head(s)>> \o CollapseWhitespace(Tail(s))

\* Position of the first ">" at or after position i of s, 0 when there is none.
RECURSIVE FindClose(_, _)
FindClose(s, i) ==
    IF i > Len(s) THEN 0
    ELSE IF s[i] = ">" THEN i ELSE FindClose(s, i + 1)

\* re.sub(r'<[^>]+>', ' ', text): a tag is "<", one or more characters other
\* than ">", then ">"; every tag is replaced by one space.
RECURSIVE SubTagsBySpace(_)
SubTagsBySpace(s) ==
    IF s = <<>> THEN <<>>
    ELSE IF /\ Head(s) = "<"
            /\ Len(s) >= 3
            /\ s[2] # ">"
            /\ FindClose(s, 3) # 0
         THEN <<" ">> \o SubTagsBySpace(SubSeq(s, FindClose(s, 3) + 1, Len(s)))
         ELSE <<Head(s)>> \o SubTagsBySpace(Tail(s))

(***************************************************************************)
(* CompleteJobMatchingPipeline: stage 1 deduplication and stage 2          *)
(* cleaning / validation.                                                  *)
(***************************************************************************)
\* pc is the position of run_complete_pipeline: which stage call comes next
\* ("direct" when the stage methods are called directly, in any order).
\* duplicates_message is the number printed by "Removed N duplicates".
VARIABLES all_jobs, jobs, processed_jobs, duplicates_message, pc

pipeVars == <<all_jobs, jobs, processed_jobs, duplicates_message, pc>>

\* program is the entry point that is running.  last_call is the stage method
\* called last and last_returned what it returned ("raised": it raised).
VARIABLES program, last_call, last_returned

callVars == <<last_call, last_returned>>

\* Field values the scrapers and API collectors hand to stage 1.
RawTitles ==
    { <<>>, <<" ">>, <<"a">>, <<"A", " ">>,
      <<"a", " ", "b">>, <<"a", " ", "\t", "b">>, <<"<", "i", ">", "a">> }

RawCompanies == { <<>>, <<"c">>, <<" ", "C">> }

RawDescriptions ==
    { <<Word25>>, <<Word25, Word25>>, <<Word25, "<", "i", ">", " ", Word25>> }

RawJobs == [title : RawTitles, company : RawCompanies, description : RawDescriptions]

RECURSIVE SeqsUpTo(_, _)
SeqsUpTo(S, n) ==
    IF n = 0 THEN { <<>> }
    ELSE LET shorter == SeqsUpTo(S, n - 1)
         IN shorter \cup { Append(q, x) : q \in { r \in shorter : Len(r) = n - 1 }, x \in S }

\* an identifier that keeps the letter case
identifier_case_sensitive(job) == <<strip(job.title), strip(job.company)>>

\* identifier computed at lines 407-410
identifier(job) == <<strip(lower(job.title)), strip(lower(job.company))>>

RECURSIVE _remove_duplicates_loop(_, _)
_remove_duplicates_loop(jobList, seen) ==
    IF jobList = <<>> THEN <<>>
    ELSE LET job == Head(jobList)
             id == identifier(job)
         IN IF id \notin seen /\ id # <<<<>>, <<>>>>
            THEN <<job>> \o _remove_duplicates_loop(Tail(jobList), seen \cup {id})
            ELSE _remove_duplicates_loop(Tail(jobList), seen)

_remove_duplicates(jobList) == _remove_duplicates_loop(jobList, {})

_clean_text(text) ==
    IF text = <<>> THEN <<>>
    ELSE strip(CollapseWhitespace(SubTagsBySpace(text)))

_clean_job_data(job) ==
    [title |-> _clean_text(job.title),
     company |-> _clean_text(job.company),
     description |-> _clean_text(job.description)]

MinDescriptionLength == 50

_is_valid_job(job) ==
    /\ StrLen(strip(job.title)) > 0
    /\ StrLen(strip(job.company)) > 0
    /\ StrLen(strip(job.description)) >= MinDescriptionLength

RECURSIVE clean_and_filter(_)
clean_and_filter(jobList) ==
    IF jobList = <<>> THEN <<>>
    ELSE LET processed_job == _clean_job_data(Head(jobList))
         IN (IF _is_valid_job(processed_job) THEN <<processed_job>> ELSE <<>>)
            \o clean_and_filter(Tail(jobList))

\* Records collected in the runs that go on to embedding and ranking: three
\* valid records and one whose description is too short.
RankRawJobs ==
    { [title |-> t, company |-> <<"c">>, description |-> <<Word25, Word25>>] :
        t \in { <<"a">>, <<"b">>, <<"a", " ", "b">> } }
    \cup { [title |-> <<"a">>, company |-> <<"d">>, description |-> <<Word25>>] }

MaxRunJobs == 3

\* What the scraper and the API collector return in a run.
\* "if not self.run_stageN(): return False" in run_complete_pipeline: where
\* the run goes after a stage method returned.  An exception raised by a stage
\* is caught at line 395 and the run returns False as well.
after_stage_ignoring_failure(returned, next_stage) == next_stage

after_stage(returned, next_stage) ==
    IF returned = "True" THEN next_stage ELSE "failed"

\* The records collected when the stage methods are called one by one.
DirectRawJobs ==
    { [title |-> t, company |-> <<"c">>, description |-> <<Word25, Word25>>] :
        t \in { <<"a">>, <<"b">> } }
    \cup { [title |-> <<"a">>, company |-> <<"d">>, description |-> <<Word25>>] }

CollectedJobs ==
    IF program = "pipeline"
    THEN IF pc = "direct" THEN SeqsUpTo(DirectRawJobs, MaxJobs)
         ELSE SeqsUpTo(RankRawJobs, MaxRunJobs)
    ELSE SeqsUpTo(RawJobs, MaxJobs)

\* all_jobs is scraped_jobs + api_jobs (line 89): whatever the scraper and the
\* API collector returned, in that order.
run_stage1_data_acquisition ==
    /\ pc \in {"stage1", "direct"}
    /\ \E collected \in CollectedJobs :
         /\ all_jobs' = collected
         /\ jobs' = _remove_duplicates(collected)
         /\ duplicates_message' = Len(collected) - Len(_remove_duplicates(collected))
         /\ last_returned' = IF _remove_duplicates(collected) # <<>> THEN "True" ELSE "False"
    /\ last_call' = "stage1"
    /\ pc' = IF pc = "direct" THEN "direct" ELSE after_stage(last_returned', "stage2")
    /\ UNCHANGED processed_jobs

run_stage2_data_preprocessing ==
    /\ pc \in {"stage2", "direct"}
    /\ IF jobs = <<>>
       THEN /\ last_returned' = "False"
            /\ UNCHANGED processed_jobs
       ELSE /\ processed_jobs' = clean_and_filter(jobs)
            /\ last_returned' = IF processed_jobs' # <<>> THEN "True" ELSE "False"
    /\ last_call' = "stage2"
    /\ pc' = IF pc = "direct" THEN "direct" ELSE after_stage(last_returned', "stage3")
    /\ UNCHANGED <<all_jobs, jobs, duplicates_message>>

(***************************************************************************)
(* stage1_complete.py: step3_combine_data as called by main.               *)
(***************************************************************************)
\* combined is scraped_jobs + api_jobs (line 97); unique_jobs and
\* duplicates_removed are the locals of step3_combine_data; step3_returned is
\* the shape of the value it returned; main_pc is the position of main.
VARIABLES combined, unique_jobs, duplicates_removed, step3_returned, main_pc

stage1Vars == <<combined, unique_jobs, duplicates_removed, step3_returned, main_pc>>

\* job_id computed at line 112
job_id(job) == <<strip(lower(job.title)), strip(lower(job.company))>>

\* The loop of lines 110-118: <<unique_jobs, duplicates_removed>> after it.
RECURSIVE combine_loop(_, _, _, _)
combine_loop(jobList, seen_jobs, unique, removed) ==
    IF jobList = <<>> THEN <<unique, removed>>
    ELSE LET job == Head(jobList)
         IN IF job_id(job) \notin seen_jobs /\ job_id(job) # <<<<>>, <<>>>>
            THEN combine_loop(Tail(jobList), seen_jobs \cup {job_id(job)},
                              Append(unique, job), removed)
            ELSE combine_loop(Tail(jobList), seen_jobs, unique, removed + 1)

step3_combine_data ==
    /\ main_pc = "step3"
    /\ \E collected \in SeqsUpTo(RawJobs, MaxJobs) :
         /\ combined' = collected
         /\ IF collected = <<>>
            THEN /\ step3_returned' = "list"
                 /\ UNCHANGED <<unique_jobs, duplicates_removed>>
            ELSE /\ unique_jobs' = combine_loop(collected, {}, <<>>, 0)[1]
                 /\ duplicates_removed' = combine_loop(collected, {}, <<>>, 0)[2]
                 /\ step3_returned' = "pair"
         \* main unpacks the result into (final_jobs, data_filename), line 237
         /\ main_pc' = IF collected = <<>> THEN "error" ELSE "step4"
    /\ UNCHANGED pipeVars

\* steps 4 and 5 of main, lines 239-244
step5_summary ==
    /\ main_pc = "step4"
    /\ main_pc' = "finished"
    /\ UNCHANGED <<combined, unique_jobs, duplicates_removed, step3_returned>>
    /\ UNCHANGED pipeVars

(***************************************************************************)
(* data_preprocessor.py: SimpleJobCleaner.                                 *)
(***************************************************************************)
\* jobs_data is the DataFrame (a sequence of rows), loaded is whether load_jobs
\* succeeded, clean_calls counts the clean_all_jobs calls since the load.
VARIABLES jobs_data, original_count, final_count, loaded, clean_calls

cleanerVars == <<jobs_data, original_count, final_count, loaded, clean_calls>>

MaxCleanCalls == 2

\* pandas' missing value: a cell that is not a text.
NaN == <<"<NaN>">>

isna(x) == x = NaN

\* The cells of the loaded CSV / JSON file.
FileTitles == { NaN, <<"a">>, <<" ", "A">>, <<"Position:", "Job:", "a">> }

FileCompanies == { NaN, <<"c">> }

FileLocations == { <<"St. Louis", ",", " ", "MO">>, <<" ">> }

FileDescriptions ==
    { NaN, <<"N/A">>, <<Word25>>, <<Word25, Word25>>,
      <<"&lt;", Word25, "&gt;">>, <<Word25, " ", "Apply Now">> }

FileRows ==
    [title : FileTitles, company : FileCompanies, location : FileLocations,
     description : FileDescriptions, clean_text : {NaN}]

\* text[n:] for a prefix of n characters that ends at an atom boundary
RECURSIVE DropChars(_, _)
DropChars(s, n) ==
    IF n <= 0 \/ s = <<>> THEN s ELSE DropChars(Tail(s), n - Len(Head(s)))

startswith(s, prefix) == s # <<>> /\ Head(s) = prefix

\* re.sub(r'<.*?>', '', text): "<", as few characters as possible, ">".
RECURSIVE SubTagsLazy(_)
SubTagsLazy(s) ==
    IF s = <<>> THEN <<>>
    ELSE IF Head(s) = "<" /\ FindClose(s, 2) # 0
         THEN SubTagsLazy(SubSeq(s, FindClose(s, 2) + 1, Len(s)))
         ELSE <<Head(s)>> \o SubTagsLazy(Tail(s))

ReplaceEntity(c) ==
    CASE c = "&amp;" -> "&"
      [] c = "&lt;" -> "<"
      [] c = "&gt;" -> ">"
      [] c = "&quot;" -> "\""
      [] OTHER -> c

remove_html_tags(text) ==
    IF isna(text) THEN <<>>
    ELSE LET untagged == SubTagsLazy(text)
         IN [i \in 1..Len(untagged) |-> ReplaceEntity(untagged[i])]

clean_whitespace(text) ==
    IF isna(text) THEN <<>> ELSE strip(CollapseWhitespace(text))

ReplaceLocation(c) ==
    CASE c = "St. Louis" -> "Saint Louis"
      [] c = "St Louis" -> "Saint Louis"
      [] c = "KC" -> "Kansas City"
      [] OTHER -> c

fix_locations(location) ==
    IF isna(location) THEN <<"Unknown">>
    ELSE LET stripped == strip(location)
         IN [i \in 1..Len(stripped) |-> ReplaceLocation(stripped[i])]

clean_job_title(title) ==
    IF isna(title) THEN <<"Unknown Position">>
    ELSE LET t0 == strip(title)
             t1 == IF startswith(t0, "Job:") THEN strip(DropChars(t0, 4)) ELSE t0
             t2 == IF startswith(t1, "Position:") THEN strip(DropChars(t1, 9)) ELSE t1
             t3 == IF startswith(t2, "Hiring:") THEN strip(DropChars(t2, 7)) ELSE t2
         IN t3

boilerplate ==
    <<"equal opportunity employer", "apply now", "click here to apply", "send resume to">>

\* ''.join(s): the string the atoms spell
RECURSIVE Concat(_)
Concat(s) == IF s = <<>> THEN "" ELSE Head(s) \o Concat(Tail(s))

\* The number of leading atoms that spell the phrase in any letter case, 0
\* when the text does not start with the phrase.
MatchAtStart(s, phrase) ==
    LET ends == { k \in 1..Len(s) : Concat(lower(SubSeq(s, 1, k))) = phrase }
    IN IF ends = {} THEN 0 ELSE CHOOSE k \in ends : \A other \in ends : k <= other

\* re.sub(phrase, '', description, flags=re.IGNORECASE): one pass from the
\* left over the non-overlapping occurrences.
RECURSIVE SubPhrase(_, _)
SubPhrase(s, phrase) ==
    IF s = <<>> THEN <<>>
    ELSE IF MatchAtStart(s, phrase) > 0
         THEN SubPhrase(SubSeq(s, MatchAtStart(s, phrase) + 1, Len(s)), phrase)
         ELSE <<Head(s)>> \o SubPhrase(Tail(s), phrase)

\* for phrase in boilerplate: description = re.sub(...), in the list's order
RECURSIVE RemovePhrases(_, _)
RemovePhrases(s, phrases) ==
    IF phrases = <<>> THEN s
    ELSE RemovePhrases(SubPhrase(s, Head(phrases)), Tail(phrases))

RemoveBoilerplate(s) == RemovePhrases(s, boilerplate)

clean_description(description) ==
    IF isna(description) THEN <<>>
    ELSE IF description \in { <<"No Description">>, <<"N/A">>, <<"NA">>, <<>> } THEN <<>>
    ELSE clean_whitespace(RemoveBoilerplate(clean_whitespace(remove_html_tags(description))))

temp_key(row) == lower(row.title) \o <<"|">> \o lower(row.company)

\* drop_duplicates(subset=['temp_key']): the first row of every key is kept
RECURSIVE drop_duplicates(_, _)
drop_duplicates(rows, seenKeys) ==
    IF rows = <<>> THEN <<>>
    ELSE IF temp_key(Head(rows)) \in seenKeys
         THEN drop_duplicates(Tail(rows), seenKeys)
         ELSE <<Head(rows)>> \o drop_duplicates(Tail(rows), seenKeys \cup {temp_key(Head(rows))})

CleanerMinDescriptionLength == 20

remove_bad_jobs(rows) ==
    LET withNames == SelectSeq(rows, LAMBDA r :
                        /\ ~isna(r.title) /\ r.title # <<>>
                        /\ ~isna(r.company) /\ r.company # <<>>)
    IN SelectSeq(withNames, LAMBDA r :
          isna(r.description) \/ StrLen(r.description) >= CleanerMinDescriptionLength)

create_clean_text(row) ==
    LET parts ==
          (IF ~isna(row.title) THEN << <<"Title: ">> \o row.title >> ELSE <<>>)
          \o (IF ~isna(row.company) THEN << <<"Company: ">> \o row.company >> ELSE <<>>)
          \o (IF ~isna(row.location) THEN << <<"Location: ">> \o row.location >> ELSE <<>>)
          \o (IF ~isna(row.description) /\ row.description # <<>>
              THEN << <<"Description: ">> \o row.description >> ELSE <<>>)
        join[k \in 0..Len(parts)] ==
          IF k = 0 THEN <<>>
          ELSE IF k = 1 THEN parts[1]
          ELSE join[k - 1] \o <<" | ">> \o parts[k]
    IN join[Len(parts)]

clean_fields(row) ==
    [title |-> clean_job_title(row.title),
     company |-> clean_whitespace(row.company),
     location |-> fix_locations(row.location),
     description |-> clean_description(row.description),
     clean_text |-> row.clean_text]

cleaned_rows(rows) ==
    LET fieldsCleaned == [i \in 1..Len(rows) |-> clean_fields(rows[i])]
        kept == remove_bad_jobs(drop_duplicates(fieldsCleaned, {}))
    IN [i \in 1..Len(kept) |-> [kept[i] EXCEPT !.clean_text = create_clean_text(kept[i])]]

load_jobs ==
    /\ ~loaded
    /\ \E rows \in SeqsUpTo(FileRows, MaxJobs) :
         /\ jobs_data' = rows
         /\ original_count' = Len(rows)
    /\ loaded' = TRUE
    /\ UNCHANGED <<final_count, clean_calls>>

clean_all_jobs ==
    /\ loaded
    /\ clean_calls < MaxCleanCalls
    /\ jobs_data' = cleaned_rows(jobs_data)
    /\ final_count' = Len(cleaned_rows(jobs_data))
    /\ clean_calls' = clean_calls + 1
    /\ UNCHANGED <<original_count, loaded>>

(***************************************************************************)
(* The similarity ranker: job_matcher.py (SimpleJobMatcher) and stages 3   *)
(* and 4 of CompleteJobMatchingPipeline.                                   *)
(*                                                                         *)
(* A vector is a triple of integers, its components in tenths.  A score is *)
(* kept in                                                                 *)
(* hundredths (100 stands for 1.0).  None is the empty tuple.  Rows and     *)
(* ranks are numbered from 1.                                              *)
(***************************************************************************)
MaxVectors == 3

None == <<>>

\* Embedding vectors the provider / the embedding files hold, components in
\* tenths; <<0, 0, 0>> has norm 0.
Vectors == { <<10, 0, 0>>, <<0, 10, 0>>, <<7, 7, 0>>, <<0, 0, 0>> }

ResumeVectors == { <<10, 0, 0>>, <<7, 7, 0>>, <<0, 0, 0>> }

\* Values of the top_n argument.
TopNs == (0 - 1)..(MaxVectors + 1)

Dot(u, v) == u[1] * v[1] + u[2] * v[2] + u[3] * v[3]

\* float('nan'), a value outside the score range
float_nan == 0 - 1000

\* a < b on floats: every comparison with nan is False
ISLT(a, b) == a # float_nan /\ b # float_nan /\ a < b

\* 1 - scipy.spatial.distance.cosine(u, v) in hundredths, rounded towards 0.
\* cosine divides dot(u, v) by sqrt(dot(u, u) * dot(v, v)) in numpy floats:
\* with a vector of norm 0 that is 0/0 = nan (a warning, no exception).
similarity(u, v) ==
    LET uv == Dot(u, v)
        uuvv == Dot(u, u) * Dot(v, v)
        magnitude == CHOOSE c \in 0..100 :
                        /\ c * c * uuvv <= 10000 * uv * uv
                        /\ (c + 1) * (c + 1) * uuvv > 10000 * uv * uv
    IN IF uuvv = 0 THEN float_nan
       ELSE IF uv >= 0 THEN magnitude ELSE 0 - magnitude

\* list.sort(key=..., reverse=True) as a permutation of 1..Len(keys), as
\* CPython sorts a list of fewer than 64 entries: the list is reversed, its
\* leading run is found (and reversed if strictly descending), the other
\* entries are inserted by binary search, and the list is reversed again.
\* Keys are compared with < only.
reversed(a) == [p \in 1..Len(a) |-> a[Len(a) + 1 - p]]

\* count_run: length of the leading run of a, which has at least 2 entries
RECURSIVE count_run(_, _, _, _)
count_run(keys, a, n, descending) ==
    IF n < Len(a) /\ (ISLT(keys[a[n + 1]], keys[a[n]]) <=> descending)
    THEN count_run(keys, a, n + 1, descending)
    ELSE n

\* binarysort's search for the place of pivot in a[l+1..r]
RECURSIVE binary_search(_, _, _, _, _)
binary_search(keys, a, pivot, l, r) ==
    IF l < r
    THEN LET p == l + ((r - l) \div 2)
         IN IF ISLT(keys[pivot], keys[a[p + 1]])
            THEN binary_search(keys, a, pivot, l, p)
            ELSE binary_search(keys, a, pivot, p + 1, r)
    ELSE l

\* binarysort: a[1..start] is sorted, the entries after it are inserted
RECURSIVE binarysort(_, _, _)
binarysort(keys, a, start) ==
    IF start >= Len(a) THEN a
    ELSE LET pivot == a[start + 1]
             l == binary_search(keys, a, pivot, 0, start)
         IN binarysort(keys,
                       SubSeq(a, 1, l) \o <<pivot>> \o SubSeq(a, l + 1, start)
                          \o SubSeq(a, start + 2, Len(a)),
                       start + 1)

sort_reverse(keys) ==
    LET a == reversed([p \in 1..Len(keys) |-> p])
    IN IF Len(keys) < 2 THEN a
       ELSE LET descending == ISLT(keys[a[2]], keys[a[1]])
                n == count_run(keys, a, 2, descending)
                run == IF descending
                       THEN reversed(SubSeq(a, 1, n)) \o SubSeq(a, n + 1, Len(a))
                       ELSE a
            IN reversed(binarysort(keys, run, n))

\* seq[:n] of Python
Slice(seq, n) ==
    IF n >= 0 THEN SubSeq(seq, 1, IF n < Len(seq) THEN n ELSE Len(seq))
    ELSE SubSeq(seq, 1, IF Len(seq) + n > 0 THEN Len(seq) + n ELSE 0)

\* min with an off-by-one on the population side
min_short(a, b) == IF a < b THEN a ELSE b - 1

min(a, b) == IF a < b THEN a ELSE b

\* ---- SimpleJobMatcher ----
\* The m_ variables are the matcher's job_embeddings, resume_embedding and job_data; similarities is its
\* score list.  calculated is what calculate_similarities last returned ("none"
\* before any call); top_jobs and top_n_asked are the result and the argument
\* of the last get_top_jobs call (top_jobs_returned: whether there was one);
\* results_saved is whether save_results wrote the result files.
VARIABLES m_job_embeddings, m_resume_embedding, m_job_data, similarities,
          calculated, top_jobs, top_n_asked, top_jobs_returned, results_saved

matcherVars == <<m_job_embeddings, m_resume_embedding, m_job_data, similarities,
                 calculated, top_jobs, top_n_asked, top_jobs_returned, results_saved>>

\* Row i of the job data file.
JobRow(i) == [row |-> i]

\* The files loaded when the matcher's methods are called one by one.
LoadedVectors ==
    IF pc = "direct" THEN SeqsUpTo({ <<10, 0, 0>>, <<0, 10, 0>> }, MaxJobs)
    ELSE SeqsUpTo(Vectors, MaxVectors)

LoadedResumes == IF pc = "direct" THEN { <<10, 0, 0>> } ELSE ResumeVectors

LoadedRowCounts == IF pc = "direct" THEN 0..MaxJobs ELSE 0..MaxVectors

MatcherTopNs == IF pc = "direct" THEN { 1, MaxJobs } ELSE TopNs

\* In main the loads come before calculate_similarities and get_top_jobs is
\* called once (lines 363-385); called directly, the methods come in any order.
in_main_order(condition) == pc = "direct" \/ condition

load_job_embeddings ==
    /\ program = "job_matcher"
    /\ in_main_order(calculated = "none" /\ ~top_jobs_returned)
    /\ \E loadedVectors \in LoadedVectors : m_job_embeddings' = loadedVectors
    /\ last_call' = "load_job_embeddings"
    /\ last_returned' = "True"
    /\ UNCHANGED <<m_resume_embedding, m_job_data, similarities, calculated, top_jobs,
                   top_n_asked, top_jobs_returned, results_saved>>

load_resume_embedding ==
    /\ program = "job_matcher"
    /\ in_main_order(calculated = "none" /\ ~top_jobs_returned)
    /\ \E loadedVector \in LoadedResumes : m_resume_embedding' = loadedVector
    /\ last_call' = "load_resume_embedding"
    /\ last_returned' = "True"
    /\ UNCHANGED <<m_job_embeddings, m_job_data, similarities, calculated, top_jobs,
                   top_n_asked, top_jobs_returned, results_saved>>

load_job_data ==
    /\ program = "job_matcher"
    /\ in_main_order(calculated = "none" /\ ~top_jobs_returned)
    /\ \E n \in LoadedRowCounts : m_job_data' = [i \in 1..n |-> JobRow(i)]
    /\ last_call' = "load_job_data"
    /\ last_returned' = "True"
    /\ UNCHANGED <<m_job_embeddings, m_resume_embedding, similarities, calculated, top_jobs,
                   top_n_asked, top_jobs_returned, results_saved>>

calculate_similarities ==
    /\ program = "job_matcher"
    /\ in_main_order(calculated = "none" /\ ~top_jobs_returned)
    /\ IF \/ m_resume_embedding = None
          \/ Len(m_job_embeddings) = 0
          \/ Len(m_job_data) # Len(m_job_embeddings)
       THEN /\ calculated' = "False"
            /\ UNCHANGED similarities
       ELSE /\ similarities' = [i \in 1..Len(m_job_embeddings) |->
                                   similarity(m_resume_embedding, m_job_embeddings[i])]
            /\ calculated' = "True"
    /\ last_call' = "calculate_similarities"
    /\ last_returned' = calculated'
    /\ UNCHANGED <<m_job_embeddings, m_resume_embedding, m_job_data, top_jobs,
                   top_n_asked, top_jobs_returned, results_saved>>

\* rank taken as the 0-based loop index
rank_zero_based(position) == position - 1

\* job['rank'] = i + 1 for the entry at (1-based) position
rank_at(position) == position

\* The list get_top_jobs(top_n) returns.
top_jobs_of(scores, job_data, top_n) ==
    IF scores = <<>> THEN <<>>
    ELSE LET job_similarities == sort_reverse(scores)
         IN [i \in 1..min(top_n, Len(job_similarities)) |->
               [row |-> job_data[job_similarities[i]].row,
                similarity_score |-> scores[job_similarities[i]],
                rank |-> rank_at(i)]]

similarities_sorted_in_place(scores) ==
    [k \in 1..Len(scores) |-> scores[sort_reverse(scores)[k]]]

\* self.similarities after get_top_jobs: the method sorts the new list
\* list(enumerate(self.similarities)), not self.similarities (lines 162-165).
similarities_after_ranking(scores) == scores

\* self.job_data[job_index] raises IndexError when one of the entries to
\* return has no job record.
get_top_jobs_raises(scores, job_data, top_n) ==
    \E i \in 1..min(top_n, Len(scores)) : sort_reverse(scores)[i] > Len(job_data)

get_top_jobs ==
    /\ program = "job_matcher"
    /\ in_main_order(~top_jobs_returned)
    /\ \E top_n \in MatcherTopNs :
         /\ top_n_asked' = top_n
         /\ IF get_top_jobs_raises(similarities, m_job_data, top_n)
            THEN /\ last_returned' = "raised"
                 /\ UNCHANGED <<top_jobs, top_jobs_returned>>
            ELSE /\ top_jobs' = top_jobs_of(similarities, m_job_data, top_n)
                 /\ top_jobs_returned' = TRUE
                 /\ last_returned' = "list"
    /\ similarities' = similarities_after_ranking(similarities)
    /\ last_call' = "get_top_jobs"
    /\ UNCHANGED <<m_job_embeddings, m_resume_embedding, m_job_data,
                   calculated, results_saved>>

save_results ==
    /\ program = "job_matcher"
    /\ top_jobs_returned
    /\ ~results_saved
    /\ top_jobs # <<>>
    /\ results_saved' = TRUE
    /\ pc # "direct"
    /\ last_call' = "save_results"
    /\ last_returned' = "None"
    /\ UNCHANGED <<m_job_embeddings, m_resume_embedding, m_job_data, similarities,
                   calculated, top_jobs, top_n_asked, top_jobs_returned>>

\* Statistics over a list of scores.  A sum with nan in it is nan.
HasNan(scores) == \E i \in 1..Len(scores) : scores[i] = float_nan

RECURSIVE Sum(_)
Sum(scores) == IF scores = <<>> THEN 0 ELSE Head(scores) + Sum(Tail(scores))

\* sum(scores) / len(scores) and np.mean(scores), in hundredths
mean(scores) == IF HasNan(scores) THEN float_nan ELSE Sum(scores) \div Len(scores)

\* max(scores) of Python: the first entry, replaced by each later entry that
\* compares greater
RECURSIVE max_from(_, _)
max_from(m, scores) ==
    IF scores = <<>> THEN m
    ELSE max_from(IF ISLT(m, Head(scores)) THEN Head(scores) ELSE m, Tail(scores))

max(scores) == max_from(Head(scores), Tail(scores))

RECURSIVE min_from(_, _)
min_from(m, scores) ==
    IF scores = <<>> THEN m
    ELSE min_from(IF ISLT(Head(scores), m) THEN Head(scores) ELSE m, Tail(scores))

\* min(scores) of Python
lowest(scores) == min_from(Head(scores), Tail(scores))

\* np.median(scores): nan if a score is nan, else the middle of the sorted
\* scores (the mean of the two middle ones for an even count)
median(scores) ==
    IF HasNan(scores) THEN float_nan
    ELSE LET order == sort_reverse(scores)
             n == Len(scores)
         IN IF n % 2 = 1 THEN scores[order[(n + 1) \div 2]]
            ELSE (scores[order[n \div 2]] + scores[order[(n \div 2) + 1]]) \div 2

\* analysis is what analyze_results printed about its argument (None before).
VARIABLES analysis

analyze_results ==
    /\ program = "job_matcher"
    /\ top_jobs_returned
    /\ ~results_saved
    /\ analysis = None
    /\ top_jobs # <<>>
    /\ pc # "direct"
    /\ last_call' = "analyze_results"
    /\ last_returned' = "None"
    /\ \E scores \in { [k \in 1..Len(top_jobs) |-> top_jobs[k].similarity_score] } :
         analysis' = [highest |-> max(scores),
                      lowest |-> lowest(scores),
                      average |-> mean(scores)]
    /\ UNCHANGED matcherVars

\* ---- CompleteJobMatchingPipeline, stages 3 and 4 ----
\* stage4_returned is what run_stage4_similarity_matching returned ("none"
\* before any call), stage4_top_n its argument, results_file_written whether it
\* wrote job_matches_<timestamp>.csv, match_data the rows of that file.
VARIABLES job_embeddings, resume_embedding, similarity_scores, top_matches,
          match_data, stage4_top_n, stage4_returned, results_file_written

stage4Vars == <<job_embeddings, resume_embedding, similarity_scores, top_matches,
                match_data, stage4_top_n, stage4_returned, results_file_written>>

\* What the last run_stage3_embedding_generation call left on disk:
\* job_embeddings_llm_<timestamp>.json and resume_embedding_llm_<timestamp>.json
\* of save_embeddings.  summary is what display_results printed under
\* "Summary Statistics" (None before).
VARIABLES job_embeddings_file, resume_embedding_file, summary

artifactVars == <<job_embeddings_file, resume_embedding_file>>

\* What the embedding model returns for the jobs and for the resume.
EncodedVectors == IF pc = "direct" THEN { <<10, 0, 0>>, <<0, 10, 0>> } ELSE Vectors

EncodedResumes == IF pc = "direct" THEN { <<10, 0, 0>> } ELSE { <<10, 0, 0>>, <<0, 0, 0>> }

\* The top_n arguments of run_stage4_similarity_matching.
Stage4TopNs == IF pc = "direct" THEN { 1 } ELSE { 0 - 1, 1, MaxVectors }

\* model.encode is a function of the text (embedding_generator.py:121): the
\* same job gives the same vector.  The vectors of the jobs embedded when the
\* stage methods are called directly.
embedding_of(job) == IF job.title = <<"a">> THEN <<10, 0, 0>> ELSE <<0, 10, 0>>

\* generator.embeddings after embed_all_jobs: one vector per job, in order.
EncodedJobs(rows) ==
    { e \in SeqsUpTo(EncodedVectors, MaxVectors) :
        /\ Len(e) = Len(rows)
        /\ pc = "direct" => \A i \in 1..Len(rows) : e[i] = embedding_of(rows[i]) }

resume_after_failure_default(previous) == <<0, 0, 0>>

\* self.resume_embedding after a failing stage 3: every failure path returns
\* False before the assignment of line 209.
resume_after_failure(previous) == previous

\* Outcomes of stage 3: it refuses (no processed jobs), or the generator is
\* missing, or load_job_data or embed_all_jobs fails (no attribute changes);
\* embed_all_jobs succeeds and embed_resume fails (job_embeddings replaced);
\* both succeed, and save_embeddings writes the two files, each write in its
\* own try block that prints the error and goes on.  The rows loaded back from
\* the temporary CSV are the processed jobs, so the count test of line 225
\* compares equal lengths.
run_stage3_embedding_generation ==
    /\ program = "pipeline"
    /\ pc \in {"stage3", "direct"}
    /\ \/ /\ last_returned' = "False"
          /\ job_embeddings_file' = FALSE
          /\ resume_embedding_file' = FALSE
          /\ resume_embedding' = resume_after_failure(resume_embedding)
          /\ UNCHANGED job_embeddings
       \/ /\ processed_jobs # <<>>
          /\ \E encoded \in EncodedJobs(processed_jobs) :
               /\ job_embeddings' = encoded
               /\ \/ /\ last_returned' = "False"
                     /\ job_embeddings_file' = FALSE
                     /\ resume_embedding_file' = FALSE
                     /\ resume_embedding' = resume_after_failure(resume_embedding)
                  \/ /\ \E encodedResume \in EncodedResumes : resume_embedding' = encodedResume
                     /\ job_embeddings_file' \in BOOLEAN
                     /\ resume_embedding_file' \in BOOLEAN
                     /\ last_returned' = IF Len(encoded) = Len(processed_jobs)
                                         THEN "True" ELSE "False"
    /\ last_call' = "stage3"
    /\ pc' = IF pc = "direct" THEN "direct" ELSE after_stage(last_returned', "stage4")
    /\ UNCHANGED <<all_jobs, jobs, processed_jobs, duplicates_message>>
    /\ UNCHANGED <<similarity_scores, top_matches, match_data, stage4_top_n,
                   stage4_returned, results_file_written>>

scored_with_first_job(i) ==
    [job_index |-> i,
     similarity_score |-> similarity(resume_embedding, job_embeddings[i]),
     job_data |-> processed_jobs[1]]

\* The entry that the loop of lines 246-265 appends for job vector i.
scored(i) ==
    [job_index |-> i,
     similarity_score |-> similarity(resume_embedding, job_embeddings[i]),
     job_data |-> processed_jobs[i]]

\* With more vectors than processed jobs, processed_jobs[i] raises IndexError
\* in the try block and again in its except block (line 264): the method
\* raises, after similarity_scores was reset and filled for the jobs that exist.
run_stage4_similarity_matching ==
    /\ program = "pipeline"
    /\ pc \in {"stage4", "direct"}
    /\ \E top_n \in Stage4TopNs :
         /\ stage4_top_n' = top_n
         /\ IF job_embeddings = <<>> \/ resume_embedding = None
            THEN /\ stage4_returned' = "False"
                 /\ UNCHANGED <<similarity_scores, top_matches, match_data, results_file_written>>
            ELSE IF Len(job_embeddings) > Len(processed_jobs)
            THEN /\ stage4_returned' = "raised"
                 /\ similarity_scores' = [i \in 1..Len(processed_jobs) |-> scored(i)]
                 /\ UNCHANGED <<top_matches, match_data, results_file_written>>
            ELSE \E scores \in { [i \in 1..Len(job_embeddings) |->
                                      similarity(resume_embedding, job_embeddings[i])] } :
                 \E order \in { sort_reverse(scores) } :
                 \E sorted \in { [k \in 1..Len(order) |-> scored(order[k])] } :
                 \E top \in { Slice(sorted, top_n) } :
                    /\ similarity_scores' = sorted
                    /\ top_matches' = top
                    /\ match_data' = [i \in 1..Len(top) |->
                                        [rank |-> rank_at(i),
                                         similarity_score |-> top[i].similarity_score,
                                         title |-> top[i].job_data.title,
                                         company |-> top[i].job_data.company]]
                    /\ results_file_written' = TRUE
                    /\ stage4_returned' = "True"
    /\ last_call' = "stage4"
    /\ last_returned' = stage4_returned'
    \* run_complete_pipeline catches the exception and returns False (line 395)
    /\ pc' = IF pc = "direct" THEN "direct" ELSE after_stage(stage4_returned', "display")
    /\ UNCHANGED <<all_jobs, jobs, processed_jobs, duplicates_message>>
    /\ UNCHANGED <<job_embeddings, resume_embedding>>

\* display_results returns before the statistics when there are no matches.
display_results ==
    /\ program = "pipeline"
    /\ pc \in {"display", "direct"}
    /\ IF top_matches = <<>>
       THEN UNCHANGED summary
       ELSE \E scores \in { [k \in 1..Len(similarity_scores) |->
                               similarity_scores[k].similarity_score] } :
               summary' = [total |-> Len(scores),
                           average |-> mean(scores),
                           best |-> max(scores),
                           median |-> median(scores)]
    /\ last_call' = "display"
    /\ last_returned' = "None"
    /\ pc' = IF pc = "direct" THEN "direct" ELSE "done"
    /\ UNCHANGED <<all_jobs, jobs, processed_jobs, duplicates_message>>
    /\ UNCHANGED stage4Vars

\* ---- SimpleDataChecker (data_validator.py) ----
\* data is the set of columns of the loaded DataFrame (NoData before a load),
\* total_jobs its number of rows.  checks_run lists the checks that
\* generate_simple_report has called, required_fields_returned is what
\* check_required_fields returned to it, report_returned how the report ended.
VARIABLES data, total_jobs, checks_run, required_fields_returned, report_returned

validatorVars == <<data, total_jobs, checks_run, required_fields_returned, report_returned>>

MaxRows == 1

\* self.data = None
NoData == {"<None>"}

\* The columns a collected file can have.
Columns == {"title", "company", "location", "description", "url", "source", "scraped_date"}

\* required_fields of check_required_fields (line 51)
required_fields == {"title", "company", "location", "description", "url", "source"}

check_required_fields(columns) ==
    LET missing_fields == { field \in required_fields : field \notin columns }
    IN IF missing_fields # {} THEN "False" ELSE "True"

\* check_data_completeness divides by self.total_jobs for every one of its
\* fields that is a column: ZeroDivisionError on a file without rows.
fields_to_check == {"title", "company", "location", "description"}

check_data_completeness_raises(columns, rows) ==
    rows = 0 /\ fields_to_check \cap columns # {}

\* load_data of a CSV or JSON file that can be read (one that cannot be read
\* leaves the checker as it was).
checker_load_data ==
    /\ program = "data_validator"
    /\ checks_run = <<>>
    /\ report_returned = "none"
    /\ \E columns \in SUBSET Columns, rows \in 0..MaxRows :
         /\ data' = columns
         /\ total_jobs' = rows
    /\ UNCHANGED <<checks_run, required_fields_returned, report_returned>>

\* generate_simple_report calls the six checks one after the other and uses
\* the return value of none of them.
generate_simple_report ==
    /\ program = "data_validator"
    /\ report_returned = "none"
    /\ IF data = NoData
       THEN /\ report_returned' = "None"
            /\ UNCHANGED <<checks_run, required_fields_returned>>
       ELSE /\ required_fields_returned' = check_required_fields(data)
            /\ IF check_data_completeness_raises(data, total_jobs)
               THEN /\ checks_run' = <<"check_required_fields", "check_data_completeness">>
                    /\ report_returned' = "raised"
               ELSE /\ checks_run' = <<"check_required_fields", "check_data_completeness",
                                       "check_for_duplicates", "check_job_sources",
                                       "check_locations", "check_description_quality">>
                    /\ report_returned' = "None"
    /\ UNCHANGED <<data, total_jobs>>

\* ---- LLMEmbeddingGenerator: the texts handed to the embedding model ----
\* job_row is the row last given to prepare_job_text (None before a call),
\* combined_text what it returned; resume_text is the text last given to
\* embed_resume, encoded_text the text it passed to model.encode.
VARIABLES job_row, combined_text, resume_text, encoded_text

composerVars == <<job_row, combined_text, resume_text, encoded_text>>

\* A method of SimpleJobCleaner called on one cell: the method, its argument
\* and the value it returned.
VARIABLES method_called, method_argument, method_result

methodVars == <<method_called, method_argument, method_result>>

LocationArguments ==
    { NaN, <<"St. Louis", ",", " ", "MO">>, <<"St Louis">>, <<"KC">>,
      <<"Kansas City", ",", " ", "MO">>, <<"Remote">>, <<" ", "Remote">>,
      <<"O", "KC", ",", " ", "OK">> }

DescriptionArguments ==
    { NaN, <<"N/A">>, <<Word25>>, <<Word25, " ", "Apply Now">>,
      <<"Apply", " ", "NOW", " ", Word25>>,
      <<"send resume to", " ", Word25, " ", "click here to apply">>,
      <<"apply", " ", "equal opportunity employer", " ", "now">>,
      <<Word25, " ", "apply", " ", "apply now", " ", "now">> }

\* SimpleAPICollector: self.jobs and what the last collect_all_jobs did.
VARIABLES collector_jobs, collect_returned

collectorVars == <<collector_jobs, collect_returned>>

MaxFetched == 2

MaxCollected == 4

\* A JSON null in an API answer: dict.get returns None for it, not the default.
JsonNull == <<"<null>">>

\* The jobs the three APIs answer with.
ApiJobs ==
    { [title |-> t, company |-> <<"c">>, source |-> s] :
        t \in { <<"a">>, <<"A">>, <<"b">> }, s \in { "USAJobs", "RemoteOK" } }
    \cup { [title |-> <<"a">>, company |-> JsonNull, source |-> "RapidAPI"] }

\* (job['title'].lower(), job['company'].lower())
collector_identifier(job) == <<lower(job.title), lower(job.company)>>

\* A duplicate filter that keeps the last job of every identifier.
RECURSIVE keep_last_jobs(_)
keep_last_jobs(found) ==
    IF found = <<>> THEN <<>>
    ELSE LET last == found[Len(found)]
             earlier == SubSeq(found, 1, Len(found) - 1)
         IN keep_last_jobs(SelectSeq(earlier,
                LAMBDA job : collector_identifier(job) # collector_identifier(last)))
            \o <<last>>

\* The loop of lines 204-211: the first job of every identifier is kept.
RECURSIVE keep_first_jobs(_)
keep_first_jobs(found) ==
    IF found = <<>> THEN <<>>
    ELSE <<Head(found)>>
         \o keep_first_jobs(SelectSeq(Tail(found),
                LAMBDA job : collector_identifier(job) # collector_identifier(Head(found))))

\* The three fetchers append to self.jobs; .lower() of None raises
\* AttributeError in the loop, before self.jobs is assigned.
collect_all_jobs ==
    /\ program = "api_scraper"
    /\ \E fetched \in SeqsUpTo(ApiJobs, MaxFetched) :
         /\ Len(collector_jobs) + Len(fetched) <= MaxCollected
         /\ \E found \in { collector_jobs \o fetched } :
              IF \E i \in 1..Len(found) : JsonNull \in { found[i].title, found[i].company }
              THEN /\ collector_jobs' = found
                   /\ collect_returned' = "raised"
              ELSE /\ collector_jobs' = keep_first_jobs(found)
                   /\ collect_returned' = "list"

fix_locations_call ==
    /\ program = "SimpleJobCleaner"
    /\ \E location \in LocationArguments :
         /\ method_argument' = location
         /\ method_result' = fix_locations(location)
    /\ method_called' = "fix_locations"

clean_description_call ==
    /\ program = "SimpleJobCleaner"
    /\ \E description \in DescriptionArguments :
         /\ method_argument' = description
         /\ method_result' = clean_description(description)
    /\ method_called' = "clean_description"

Word100 == Word25 \o Word25 \o Word25 \o Word25

Word1000 ==
    Word100 \o Word100 \o Word100 \o Word100 \o Word100
    \o Word100 \o Word100 \o Word100 \o Word100 \o Word100

\* The cells of a row of the loaded job file: a CSV file gives NaN for an
\* empty cell, a JSON file can hold empty strings (the API collector writes ''
\* for a job without location).
ComposerTitles == { NaN, <<>>, <<"a">> }

ComposerCompanies == { NaN, <<"No Company">>, <<"c">> }

ComposerLocations == { NaN, <<>>, <<"No Location">>, <<"St. Louis", ",", " ", "MO">> }

ComposerDescriptions ==
    { NaN, <<>>, <<"No Description">>, <<Word25>>, <<Word1000>>,
      <<Word1000, "x">>, <<Word25, Word1000>> }

ComposerRows ==
    [title : ComposerTitles, company : ComposerCompanies,
     location : ComposerLocations, description : ComposerDescriptions]

ResumeTexts ==
    { <<Word25>>, <<Word1000, Word1000>>, <<Word1000, Word1000, "x">>,
      <<Word1000, Word25, Word1000>> }

\* text[:n]
RECURSIVE Prefix(_, _)
Prefix(s, n) ==
    IF n <= 0 \/ s = <<>> THEN <<>>
    ELSE IF Len(Head(s)) <= n
         THEN <<Head(s)>> \o Prefix(Tail(s), n - Len(Head(s)))
         ELSE <<SubSeq(Head(s), 1, n)>>

\* " | ".join(text_parts)
RECURSIVE join(_)
join(text_parts) ==
    IF text_parts = <<>> THEN <<>>
    ELSE IF Len(text_parts) = 1 THEN text_parts[1]
    ELSE text_parts[1] \o <<" | ">> \o join(Tail(text_parts))

DescriptionLimit == 1000

ResumeLimit == 2000

\* desc[:1000] + "..." for a description of more than 1000 characters
limited(desc, limit) ==
    IF StrLen(desc) > limit THEN Prefix(desc, limit) \o <<"...">> ELSE desc

prepare_job_text_of(row) ==
    join((IF ~isna(row.title) THEN << <<"Job Title: ">> \o row.title >> ELSE <<>>)
         \o (IF ~isna(row.company) /\ row.company # <<"No Company">>
             THEN << <<"Company: ">> \o row.company >> ELSE <<>>)
         \o (IF ~isna(row.location) /\ row.location # <<"No Location">>
             THEN << <<"Location: ">> \o row.location >> ELSE <<>>)
         \o (IF ~isna(row.description) /\ row.description # <<"No Description">>
             THEN << <<"Description: ">> \o limited(row.description, DescriptionLimit) >>
             ELSE <<>>))

prepare_job_text ==
    /\ program = "embedding_generator"
    /\ \E row \in ComposerRows :
         /\ job_row' = row
         /\ combined_text' = prepare_job_text_of(row)
    /\ UNCHANGED <<resume_text, encoded_text>>

\* embed_resume shortens the resume and encodes it (lines 149-156).
embed_resume ==
    /\ program = "embedding_generator"
    /\ \E text \in ResumeTexts :
         /\ resume_text' = text
         /\ encoded_text' = limited(text, ResumeLimit)
    /\ UNCHANGED <<job_row, combined_text>>

vars == <<pipeVars, stage1Vars, cleanerVars, program, callVars, matcherVars, analysis,
          stage4Vars, artifactVars, summary, validatorVars, composerVars, methodVars, collectorVars>>

\* The state after construction of every object, before any call.
Constructed ==
    /\ all_jobs = <<>>
    /\ jobs = <<>>
    /\ processed_jobs = <<>>
    /\ duplicates_message = 0
    /\ last_call = "none"
    /\ last_returned = "none"
    /\ combined = <<>>
    /\ unique_jobs = <<>>
    /\ duplicates_removed = 0
    /\ step3_returned = "none"
    /\ main_pc = "step3"
    /\ jobs_data = <<>>
    /\ original_count = 0
    /\ final_count = 0
    /\ loaded = FALSE
    /\ clean_calls = 0
    /\ m_job_embeddings = <<>>
    /\ m_resume_embedding = None
    /\ m_job_data = <<>>
    /\ similarities = <<>>
    /\ calculated = "none"
    /\ top_jobs = <<>>
    /\ top_n_asked = 0
    /\ top_jobs_returned = FALSE
    /\ results_saved = FALSE
    /\ analysis = None
    /\ job_embeddings = <<>>
    /\ resume_embedding = None
    /\ similarity_scores = <<>>
    /\ top_matches = <<>>
    /\ match_data = <<>>
    /\ stage4_top_n = 0
    /\ stage4_returned = "none"
    /\ results_file_written = FALSE
    /\ job_embeddings_file = FALSE
    /\ resume_embedding_file = FALSE
    /\ summary = None
    /\ data = NoData
    /\ total_jobs = 0
    /\ checks_run = <<>>
    /\ required_fields_returned = "none"
    /\ report_returned = "none"
    /\ job_row = None
    /\ combined_text = None
    /\ resume_text = None
    /\ encoded_text = None
    /\ method_called = "none"
    /\ collector_jobs = <<>>
    /\ collect_returned = "none"
    /\ method_argument = None
    /\ method_result = None

Init ==
    /\ Constructed
    /\ pc = "stage1"
    /\ program = "none"

NextNorm ==
    \/ run_stage1_data_acquisition
          /\ UNCHANGED <<stage1Vars, cleanerVars, program, matcherVars, analysis,
                         stage4Vars, artifactVars, summary, validatorVars, composerVars, methodVars, collectorVars>>
    \/ run_stage2_data_preprocessing
          /\ UNCHANGED <<stage1Vars, cleanerVars, program, matcherVars, analysis,
                         stage4Vars, artifactVars, summary, validatorVars, composerVars, methodVars, collectorVars>>

SpecNorm == Init /\ [][NextNorm]_vars

NextStage1 ==
    \/ step3_combine_data
          /\ UNCHANGED <<cleanerVars, program, callVars, matcherVars, analysis,
                         stage4Vars, artifactVars, summary, validatorVars, composerVars, methodVars, collectorVars>>
    \/ step5_summary
          /\ UNCHANGED <<cleanerVars, program, callVars, matcherVars, analysis,
                         stage4Vars, artifactVars, summary, validatorVars, composerVars, methodVars, collectorVars>>

SpecStage1 == Init /\ [][NextStage1]_vars

NextCleaner ==
    \/ load_jobs
          /\ UNCHANGED <<pipeVars, stage1Vars, program, callVars, matcherVars, analysis,
                         stage4Vars, artifactVars, summary, validatorVars, composerVars, methodVars, collectorVars>>
    \/ clean_all_jobs
          /\ UNCHANGED <<pipeVars, stage1Vars, program, callVars, matcherVars, analysis,
                         stage4Vars, artifactVars, summary, validatorVars, composerVars, methodVars, collectorVars>>

SpecCleaner == Init /\ [][NextCleaner]_vars

\* The ranking programs: job_matcher.main on a fresh SimpleJobMatcher, or
\* run_complete_pipeline on a fresh CompleteJobMatchingPipeline.
InitRank ==
    /\ Constructed
    /\ \/ program = "job_matcher" /\ pc = "idle"
       \/ program = "pipeline" /\ pc = "stage1"

MatcherStep(A) ==
    A /\ UNCHANGED <<pipeVars, stage1Vars, cleanerVars, program,
                     stage4Vars, artifactVars, summary, validatorVars, composerVars, methodVars, collectorVars>>

PipelineStep(A) ==
    A /\ UNCHANGED <<stage1Vars, cleanerVars, program, matcherVars, analysis, validatorVars,
                     composerVars, methodVars, collectorVars>>

NextRank ==
    \/ MatcherStep(load_job_embeddings /\ UNCHANGED analysis)
    \/ MatcherStep(load_resume_embedding /\ UNCHANGED analysis)
    \/ MatcherStep(load_job_data /\ UNCHANGED analysis)
    \/ MatcherStep(calculate_similarities /\ UNCHANGED analysis)
    \/ MatcherStep(get_top_jobs /\ UNCHANGED analysis)
    \/ MatcherStep(analyze_results)
    \/ MatcherStep(save_results /\ UNCHANGED analysis)
    \/ PipelineStep(run_stage1_data_acquisition
                       /\ UNCHANGED <<stage4Vars, artifactVars, summary>>)
    \/ PipelineStep(run_stage2_data_preprocessing
                       /\ UNCHANGED <<stage4Vars, artifactVars, summary>>)
    \/ PipelineStep(run_stage3_embedding_generation /\ UNCHANGED summary)
    \/ PipelineStep(run_stage4_similarity_matching /\ UNCHANGED <<artifactVars, summary>>)
    \/ PipelineStep(display_results /\ UNCHANGED artifactVars)

SpecRank == InitRank /\ [][NextRank]_vars

\* The stage methods of one pipeline object called directly, in any order.
InitCalls ==
    /\ Constructed
    /\ program = "pipeline"
    /\ pc = "direct"

NextCalls ==
    \/ PipelineStep(run_stage1_data_acquisition
                       /\ UNCHANGED <<stage4Vars, artifactVars, summary>>)
    \/ PipelineStep(run_stage2_data_preprocessing
                       /\ UNCHANGED <<stage4Vars, artifactVars, summary>>)
    \/ PipelineStep(run_stage3_embedding_generation /\ UNCHANGED summary)
    \/ PipelineStep(run_stage4_similarity_matching /\ UNCHANGED <<artifactVars, summary>>)

SpecCalls == InitCalls /\ [][NextCalls]_vars

\* The methods of one SimpleJobMatcher called directly, in any order.
InitMatcherCalls ==
    /\ Constructed
    /\ program = "job_matcher"
    /\ pc = "direct"

NextMatcherCalls ==
    \/ MatcherStep(load_job_embeddings /\ UNCHANGED analysis)
    \/ MatcherStep(load_resume_embedding /\ UNCHANGED analysis)
    \/ MatcherStep(load_job_data /\ UNCHANGED analysis)
    \/ MatcherStep(calculate_similarities /\ UNCHANGED analysis)
    \/ MatcherStep(get_top_jobs /\ UNCHANGED analysis)

SpecMatcherCalls == InitMatcherCalls /\ [][NextMatcherCalls]_vars

\* data_validator.main: a fresh SimpleDataChecker loads a file and reports.
InitValidator ==
    /\ Constructed
    /\ program = "data_validator"
    /\ pc = "idle"

NextValidator ==
    \/ checker_load_data
          /\ UNCHANGED <<pipeVars, stage1Vars, cleanerVars, program, callVars, matcherVars,
                         analysis, stage4Vars, artifactVars, summary, composerVars, methodVars, collectorVars>>
    \/ generate_simple_report
          /\ UNCHANGED <<pipeVars, stage1Vars, cleanerVars, program, callVars, matcherVars,
                         analysis, stage4Vars, artifactVars, summary, composerVars, methodVars, collectorVars>>

SpecValidator == InitValidator /\ [][NextValidator]_vars

\* The two text composers: a fresh LLMEmbeddingGenerator composing job texts
\* and the resume text, or a fresh SimpleJobCleaner cleaning a loaded file.
InitText ==
    /\ Constructed
    /\ program \in {"embedding_generator", "data_preprocessor", "SimpleJobCleaner"}
    /\ pc = "idle"

NextText ==
    \/ prepare_job_text
          /\ UNCHANGED <<pipeVars, stage1Vars, cleanerVars, program, callVars, matcherVars,
                         analysis, stage4Vars, artifactVars, summary, validatorVars,
                         methodVars, collectorVars>>
    \/ embed_resume
          /\ UNCHANGED <<pipeVars, stage1Vars, cleanerVars, program, callVars, matcherVars,
                         analysis, stage4Vars, artifactVars, summary, validatorVars,
                         methodVars, collectorVars>>
    \/ program = "data_preprocessor" /\ load_jobs
          /\ UNCHANGED <<pipeVars, stage1Vars, program, callVars, matcherVars, analysis,
                         stage4Vars, artifactVars, summary, validatorVars, composerVars, methodVars, collectorVars>>
    \/ program = "data_preprocessor" /\ clean_all_jobs
          /\ UNCHANGED <<pipeVars, stage1Vars, program, callVars, matcherVars, analysis,
                         stage4Vars, artifactVars, summary, validatorVars, composerVars, methodVars, collectorVars>>
    \/ fix_locations_call
          /\ UNCHANGED <<pipeVars, stage1Vars, cleanerVars, program, callVars, matcherVars,
                         analysis, stage4Vars, artifactVars, summary, validatorVars,
                         composerVars, collectorVars>>
    \/ clean_description_call
          /\ UNCHANGED <<pipeVars, stage1Vars, cleanerVars, program, callVars, matcherVars,
                         analysis, stage4Vars, artifactVars, summary, validatorVars,
                         composerVars, collectorVars>>

SpecText == InitText /\ [][NextText]_vars

\* One SimpleAPICollector on which collect_all_jobs is called again and again.
InitCollector ==
    /\ Constructed
    /\ program = "api_scraper"
    /\ pc = "idle"

NextCollector ==
    collect_all_jobs
       /\ UNCHANGED <<pipeVars, stage1Vars, cleanerVars, program, callVars, matcherVars,
                      analysis, stage4Vars, artifactVars, summary, validatorVars,
                      composerVars, methodVars>>

SpecCollector == InitCollector /\ [][NextCollector]_vars

(***************************************************************************)
(* Properties of deduplication and normalisation.                          *)
(***************************************************************************)
\* normalize of the data model: lowercase, trim, collapse internal whitespace
normalize(s) == strip(CollapseWhitespace(lower(s)))

DedupIdentity(job) == <<normalize(job.title), normalize(job.company)>>

\* C1 (as claimed): after stage-1 deduplication and stage-2 cleaning and
\* validation, no two records of processed_jobs have the same dedup identity
\* (normalize(title), normalize(company)).
C1_UniqueIdentityAfterStage2 ==
    \A i, j \in 1..Len(processed_jobs) :
        i < j => DedupIdentity(processed_jobs[i]) # DedupIdentity(processed_jobs[j])

\* kept is seq restricted to indices that are first for their identifier, in
\* increasing index order, no identifier twice.
KeepsFirstSeenInOrder(seq, kept, id(_)) ==
    /\ \E f \in [1..Len(kept) -> 1..Len(seq)] :
          /\ \A k \in 1..Len(kept) :
                /\ kept[k] = seq[f[k]]
                /\ \A j \in 1..(f[k] - 1) : id(seq[j]) # id(seq[f[k]])
          /\ \A k, l \in 1..Len(kept) : k < l => f[k] < f[l]
    /\ \A k, l \in 1..Len(kept) : k < l => id(kept[k]) # id(kept[l])
    \* every later record of an identity that has a retained record is dropped,
    \* and an identity with a first record that is not empty has one retained
    /\ \A i \in 1..Len(seq) :
          id(seq[i]) # <<<<>>, <<>>>> => \E k \in 1..Len(kept) : id(kept[k]) = id(seq[i])

\* identity of a record for deduplication: title and company, ignoring letter
\* case and surrounding whitespace
CaseTrimIdentity(job) == <<strip(lower(job.title)), strip(lower(job.company))>>

C3_ValidRecordSurvivesInvalidTwin ==
    pc \in {"stage3", "failed"} =>
      \A i, j \in 1..Len(all_jobs) :
        ( /\ i < j
          /\ identifier(all_jobs[i]) = identifier(all_jobs[j])
          /\ ~_is_valid_job(_clean_job_data(all_jobs[i]))
          /\ _is_valid_job(_clean_job_data(all_jobs[j]))
          /\ \A h \in 1..(j - 1) :
                identifier(all_jobs[h]) = identifier(all_jobs[j])
                  => ~_is_valid_job(_clean_job_data(all_jobs[h])) )
        => \E k \in 1..Len(processed_jobs) :
              processed_jobs[k] = _clean_job_data(all_jobs[j])

\* The records of seq that have an earlier record with the same identity.
LaterTwins(seq, id(_)) ==
    { i \in 1..Len(seq) : \E j \in 1..(i - 1) : id(seq[j]) = id(seq[i]) }

\* C4 (as claimed): every dropped record is counted exactly once, and
\* duplicates_removed counts only the records dropped because an earlier
\* record had the same identity (step3_combine_data has no validity filter, so
\* its invalid_removed is 0).
C4_DuplicatesRemovedCountsOnlyDuplicates ==
    step3_returned = "pair" =>
      /\ Len(unique_jobs) + duplicates_removed = Len(combined)
      /\ duplicates_removed = Cardinality(LaterTwins(combined, job_id))

\* C5 (as claimed): every record retained by normalization has a title and a
\* company that are non-empty after trim and a cleaned description of at
\* least the configured minimum length (50).
C5_RetainedRecordsAreValid ==
    clean_calls >= 1 =>
      \A i \in 1..Len(jobs_data) :
        /\ StrLen(strip(jobs_data[i].title)) > 0
        /\ StrLen(strip(jobs_data[i].company)) > 0
        /\ StrLen(jobs_data[i].description) >= MinDescriptionLength

\* C6 (as claimed): normalizing already-normalized output removes no further
\* record: a clean_all_jobs call that follows an earlier one leaves the number
\* of rows unchanged.
C6_SecondNormalizationRemovesNothing ==
    [][(clean_calls >= 1 /\ clean_calls' = clean_calls + 1)
          => Len(jobs_data') = Len(jobs_data)]_vars

(***************************************************************************)
(* Properties of the ranker.                                               *)
(***************************************************************************)
\* A record with score s1 and index i1 may come before one with s2 and i2:
\* s1 is not the smaller score, and equal scores are in index order.
RanksBefore(s1, i1, s2, i2) ==
    /\ ~ISLT(s1, s2)
    /\ (s1 = s2 /\ s1 # float_nan) => i1 < i2

\* C7 (as claimed): the ranker orders all N scored records by score
\* descending, and records with equal scores appear in their original index
\* order (get_top_jobs, and similarity_scores of stage 4, which holds all N
\* records), for every list of scores.
C7_SortedByScoreStable ==
    /\ top_jobs_returned =>
         \A k, l \in 1..Len(top_jobs) :
            k < l => RanksBefore(top_jobs[k].similarity_score, top_jobs[k].row,
                                 top_jobs[l].similarity_score, top_jobs[l].row)
    /\ stage4_returned = "True" =>
         /\ Len(similarity_scores) = Len(job_embeddings)
         /\ \A k, l \in 1..Len(similarity_scores) :
               k < l => RanksBefore(similarity_scores[k].similarity_score,
                                    similarity_scores[k].job_index,
                                    similarity_scores[l].similarity_score,
                                    similarity_scores[l].job_index)

\* C8: the ranker returns the first top_n entries of the sorted order; when
\* top_n exceeds the population N it returns all N records, each exactly once
\* (top_n >= 0).
C8_TopNSelection ==
    /\ (top_jobs_returned /\ calculated = "True" /\ top_n_asked >= 0) =>
         LET N == Len(similarities)
             returned == { top_jobs[k].row : k \in 1..Len(top_jobs) }
         IN /\ Len(top_jobs) = (IF top_n_asked < N THEN top_n_asked ELSE N)
            /\ Cardinality(returned) = Len(top_jobs)
            /\ returned \subseteq 1..N
            /\ \A k \in 1..Len(top_jobs) :
                  top_jobs[k].similarity_score = similarities[top_jobs[k].row]
            /\ \A k \in 1..Len(top_jobs) :
                  top_jobs[k].row = m_job_data[sort_reverse(similarities)[k]].row
            /\ top_n_asked >= N => returned = 1..N
    /\ (stage4_returned = "True" /\ stage4_top_n >= 0) =>
         LET N == Len(job_embeddings)
             returned == { top_matches[k].job_index : k \in 1..Len(top_matches) }
         IN /\ Len(top_matches) = (IF stage4_top_n < N THEN stage4_top_n ELSE N)
            /\ Len(match_data) = Len(top_matches)
            /\ Cardinality(returned) = Len(top_matches)
            /\ \A k \in 1..Len(top_matches) : top_matches[k] = similarity_scores[k]
            /\ stage4_top_n >= N => returned = 1..N

C8_Witness ==
    /\ top_jobs_returned
    /\ calculated = "True"
    /\ Len(similarities) = 2
    /\ top_n_asked > Len(similarities)
    /\ Len(top_jobs) = 2

\* C9 (as claimed): ranks of the returned entries are dense, unique and
\* 1-based: the k-th returned entry has rank k, and a higher score never has a
\* larger rank.
C9_DenseRanks ==
    /\ top_jobs_returned =>
         /\ \A k \in 1..Len(top_jobs) : top_jobs[k].rank = k
         /\ \A k, l \in 1..Len(top_jobs) :
               ISLT(top_jobs[l].similarity_score, top_jobs[k].similarity_score)
                  => top_jobs[k].rank < top_jobs[l].rank
    /\ stage4_returned = "True" =>
         /\ Len(match_data) = Len(top_matches)
         /\ \A k \in 1..Len(match_data) :
               /\ match_data[k].rank = k
               /\ match_data[k].similarity_score = top_matches[k].similarity_score
         /\ \A k, l \in 1..Len(match_data) :
               ISLT(match_data[l].similarity_score, match_data[k].similarity_score)
                  => match_data[k].rank < match_data[l].rank

\* C10 (as claimed): ranking with zero job vectors or with no query vector
\* fails with a distinct outcome and writes no result artifact, and the ranker
\* never returns an empty ranked list when the computation never ran.
C10_NeverRanIsNotAnEmptyRanking ==
    /\ calculated = "False" => ~results_saved
    /\ (stage4_returned # "none" /\ (job_embeddings = <<>> \/ resume_embedding = None)) =>
         (stage4_returned = "False" /\ ~results_file_written)
    /\ (top_jobs_returned /\ calculated # "True") => top_jobs # <<>>

\* Whether a vector has norm 0.
ZeroNorm(u) == Dot(u, u) = 0

\* C11 (as claimed): the similarity of the query vector with a job vector is
\* exactly 0.0 whenever either vector has zero norm, never an undefined (NaN)
\* score, and every job is still scored.
C11_ZeroNormScoresZero ==
    /\ calculated = "True" =>
         /\ Len(similarities) = Len(m_job_embeddings)
         /\ \A i \in 1..Len(similarities) :
               /\ similarities[i] # float_nan
               /\ (ZeroNorm(m_resume_embedding) \/ ZeroNorm(m_job_embeddings[i]))
                     => similarities[i] = 0
    /\ stage4_returned = "True" =>
         /\ Len(similarity_scores) = Len(job_embeddings)
         /\ \A k \in 1..Len(similarity_scores) :
               /\ similarity_scores[k].similarity_score # float_nan
               /\ ( \/ ZeroNorm(resume_embedding)
                    \/ ZeroNorm(job_embeddings[similarity_scores[k].job_index]) )
                     => similarity_scores[k].similarity_score = 0

(***************************************************************************)
(* Properties of the pipeline stages.                                      *)
(***************************************************************************)
\* C12 (as claimed): when the number of job vectors differs from the number
\* of job records at ranking entry, the ranking stage fails without computing
\* any score, in calculate_similarities and in run_stage4_similarity_matching
\* alike.
C12_CountMismatchFailsRanking ==
    [][/\ (/\ calculated = "none"
           /\ calculated' # "none"
           /\ Len(m_job_embeddings) # Len(m_job_data))
          => (calculated' = "False" /\ similarities' = similarities)
       /\ (/\ last_call' = "stage4"
           /\ Len(job_embeddings) # Len(processed_jobs))
          => (last_returned' # "True" /\ similarity_scores' = similarity_scores)]_vars

\* C13: in run_complete_pipeline a stage starts only after every earlier
\* stage has returned success (stage 1 first, then each stage right after the
\* success of the one before it); after a stage fails no later stage runs and
\* the run ends reporting failure.
C13_StagesRunInOrder ==
    [][(program = "pipeline" /\ pc # "direct") =>
          /\ last_call' = "stage1" => last_call = "none"
          /\ last_call' = "stage2" => (last_call = "stage1" /\ last_returned = "True")
          /\ last_call' = "stage3" => (last_call = "stage2" /\ last_returned = "True")
          /\ last_call' = "stage4" => (last_call = "stage3" /\ last_returned = "True")
          /\ last_call' = "display" => (last_call = "stage4" /\ last_returned = "True")
          /\ last_returned' \in {"False", "raised"} => pc' = "failed"
          /\ pc # "failed"]_vars

C13_Witness ==
    /\ program = "pipeline"
    /\ pc = "failed"
    /\ last_call = "stage3"
    /\ last_returned = "False"
    /\ processed_jobs # <<>>
    /\ stage4_returned = "none"

\* C14 (as claimed): a stage method, called at any time, returns failure and
\* leaves its own outputs unchanged unless its predecessor's output is there:
\* stage 2 needs jobs, stage 3 needs processed jobs, stage 4 needs job
\* vectors, a resume vector and as many vectors as processed jobs.
C14_StagesRefuseWithoutInput ==
    [][/\ (last_call' = "stage2" /\ jobs = <<>>)
          => (last_returned' = "False" /\ processed_jobs' = processed_jobs)
       /\ (last_call' = "stage3" /\ processed_jobs = <<>>)
          => /\ last_returned' = "False"
             /\ job_embeddings' = job_embeddings
             /\ resume_embedding' = resume_embedding
             /\ ~job_embeddings_file' /\ ~resume_embedding_file'
       /\ (/\ last_call' = "stage4"
           /\ \/ job_embeddings = <<>>
              \/ resume_embedding = None
              \/ Len(job_embeddings) # Len(processed_jobs))
          => /\ last_returned' = "False"
             /\ similarity_scores' = similarity_scores
             /\ top_matches' = top_matches
             /\ match_data' = match_data
             /\ results_file_written' = results_file_written]_vars

\* C15: each match result pairs job record i with the score of job vector i:
\* an entry that carries record i carries the similarity of the resume vector
\* with vector i, in the matcher's top jobs and in the pipeline's scored list,
\* top matches and result rows.
C15_RecordPairedWithItsVector ==
    /\ (program = "job_matcher" /\ calculated = "True" /\ top_jobs_returned) =>
         \A k \in 1..Len(top_jobs) :
            /\ top_jobs[k].row \in 1..Len(m_job_embeddings)
            /\ m_job_data[top_jobs[k].row] = JobRow(top_jobs[k].row)
            /\ top_jobs[k].similarity_score =
                  similarity(m_resume_embedding, m_job_embeddings[top_jobs[k].row])
    /\ (program = "pipeline" /\ stage4_returned = "True") =>
         /\ \A k \in 1..Len(similarity_scores) :
               LET i == similarity_scores[k].job_index
               IN /\ i \in 1..Len(job_embeddings)
                  /\ similarity_scores[k].job_data = processed_jobs[i]
                  /\ similarity_scores[k].similarity_score =
                        similarity(resume_embedding, job_embeddings[i])
         /\ \A k \in 1..Len(top_matches) :
               /\ top_matches[k] = similarity_scores[k]
               /\ match_data[k].title = top_matches[k].job_data.title
               /\ match_data[k].company = top_matches[k].job_data.company
               /\ match_data[k].similarity_score = top_matches[k].similarity_score

C15_Witness ==
    /\ program = "pipeline"
    /\ stage4_returned = "True"
    /\ Len(top_matches) = 2
    /\ top_matches[1].job_index = 2
    /\ top_matches[1].similarity_score = 100
    /\ top_matches[2].similarity_score = 0

\* Scenario B of the specification: the query vector and the three job
\* vectors, components in tenths.
ScenarioB_query == <<10, 0, 0>>

ScenarioB_jobs == << <<10, 0, 0>>, <<0, 10, 0>>, <<7, 7, 0>> >>

\* C16: for the query [1,0,0] and the jobs [1,0,0], [0,1,0], [0.7,0.7,0] the
\* scores are 1.0, 0.0 and about 0.707 (between 0.70 and 0.71), and the
\* ranking is job 1 with rank 1, job 3 with rank 2, job 2 with rank 3.
C16_ScenarioB ==
    /\ (/\ program = "job_matcher"
        /\ calculated = "True"
        /\ m_resume_embedding = ScenarioB_query
        /\ m_job_embeddings = ScenarioB_jobs) =>
          /\ similarities[1] = 100
          /\ similarities[2] = 0
          /\ similarities[3] \in 70..71
          /\ (top_jobs_returned /\ top_n_asked >= 3) =>
                /\ Len(top_jobs) = 3
                /\ top_jobs[1].row = 1 /\ top_jobs[1].rank = 1
                /\ top_jobs[2].row = 3 /\ top_jobs[2].rank = 2
                /\ top_jobs[3].row = 2 /\ top_jobs[3].rank = 3
    /\ (/\ program = "pipeline"
        /\ stage4_returned = "True"
        /\ resume_embedding = ScenarioB_query
        /\ job_embeddings = ScenarioB_jobs) =>
          /\ Len(similarity_scores) = 3
          /\ similarity_scores[1].job_index = 1 /\ similarity_scores[1].similarity_score = 100
          /\ similarity_scores[2].job_index = 3 /\ similarity_scores[2].similarity_score \in 70..71
          /\ similarity_scores[3].job_index = 2 /\ similarity_scores[3].similarity_score = 0
          /\ stage4_top_n >= 3 =>
                /\ Len(match_data) = 3
                /\ \A k \in 1..3 : match_data[k].rank = k
                /\ \A k \in 1..3 : match_data[k].title = similarity_scores[k].job_data.title

C16_Witness ==
    /\ program = "job_matcher"
    /\ calculated = "True"
    /\ m_resume_embedding = ScenarioB_query
    /\ m_job_embeddings = ScenarioB_jobs
    /\ top_jobs_returned
    /\ top_n_asked = 3
    /\ Len(top_jobs) = 3

\* C17 (as claimed): the aggregate statistics of a ranking are computed over
\* all N scored records and not over the top_n returned ones: the pipeline's
\* summary and the matcher's analysis report the maximum and the mean of all
\* scores, and the pipeline's summary their count and median.
C17_StatisticsOverAllScores ==
    /\ (program = "job_matcher" /\ analysis # None) =>
          /\ \E i \in 1..Len(similarities) : analysis.highest = similarities[i]
          /\ \A i \in 1..Len(similarities) : ~ISLT(analysis.highest, similarities[i])
          /\ analysis.average = mean(similarities)
    /\ (program = "pipeline" /\ summary # None) =>
         LET all_scores == [i \in 1..Len(job_embeddings) |->
                               similarity(resume_embedding, job_embeddings[i])]
         IN /\ summary.total = Len(all_scores)
            /\ \E i \in 1..Len(all_scores) : summary.best = all_scores[i]
            /\ \A i \in 1..Len(all_scores) : ~ISLT(summary.best, all_scores[i])
            /\ summary.average = mean(all_scores)
            /\ summary.median = median(all_scores)

\* C18: in a pipeline run, when the embedding provider fails (no model, or the
\* job call or the resume call raising) stage 3 fails: the run ends as failed,
\* no resume vector and no job vector other than the provider's own output is
\* set, processed_jobs is still the output of stage 2, and stage 4 has not run.
C18_ProviderFailureIsFatal ==
    (program = "pipeline" /\ pc # "direct" /\ last_call = "stage3" /\ last_returned = "False") =>
       /\ pc = "failed"
       /\ resume_embedding = None
       /\ job_embeddings = <<>> \/ Len(job_embeddings) = Len(processed_jobs)
       /\ \A i \in 1..Len(job_embeddings) : job_embeddings[i] \in EncodedVectors
       /\ processed_jobs # <<>>
       /\ processed_jobs = clean_and_filter(jobs)
       /\ stage4_returned = "none"
       /\ similarity_scores = <<>>
       /\ top_matches = <<>>
       /\ ~results_file_written

C18_Witness ==
    /\ program = "pipeline"
    /\ pc = "failed"
    /\ last_call = "stage3"
    /\ last_returned = "False"
    /\ Len(processed_jobs) = 2
    /\ Len(job_embeddings) = 2
    /\ resume_embedding = None

\* C19 (as claimed): a failing stage writes no result artifact, and the
\* embedding stage writes the job-embedding file and the resume-embedding file
\* together or writes neither, also when one of the file writes fails.
C19_NoPartialArtifact ==
    /\ (program = "pipeline" /\ last_call = "stage3") =>
          /\ job_embeddings_file <=> resume_embedding_file
          /\ last_returned = "False" => (~job_embeddings_file /\ ~resume_embedding_file)
    /\ (program = "pipeline" /\ pc # "direct" /\ last_call = "stage4" /\ last_returned # "True")
          => ~results_file_written

(***************************************************************************)
(* Properties of the data checker.                                         *)
(***************************************************************************)
\* C20 (as claimed): a batch that lacks one of the required columns title,
\* company, location, description, url, source, scraped_date is rejected
\* before any processing: check_required_fields reports the missing field and
\* no later check of the report runs on the batch.
C20_MissingFieldRejectsBatch ==
    LET required == {"title", "company", "location", "description", "url", "source",
                     "scraped_date"}
    IN (checks_run # <<>> /\ ~(required \subseteq data)) =>
          /\ required_fields_returned = "False"
          /\ checks_run = <<"check_required_fields">>

(***************************************************************************)
(* Properties of the text composers.                                       *)
(***************************************************************************)
\* A source field without content: missing, the empty string, or the
\* collectors' placeholder for a missing value.
Absent(field, placeholder) == isna(field) \/ field = <<>> \/ field = placeholder

\* The labeled segments of the fields that have content, in the fixed order,
\* joined by " | ".
ComposedText(title_label, row, description) ==
    join((IF ~Absent(row.title, <<"No Title">>)
          THEN << <<title_label>> \o row.title >> ELSE <<>>)
         \o (IF ~Absent(row.company, <<"No Company">>)
             THEN << <<"Company: ">> \o row.company >> ELSE <<>>)
         \o (IF ~Absent(row.location, <<"No Location">>)
             THEN << <<"Location: ">> \o row.location >> ELSE <<>>)
         \o (IF ~Absent(row.description, <<"No Description">>)
             THEN << <<"Description: ">> \o description >> ELSE <<>>))

\* C21 (as claimed): the composed text of a record is its labeled segments
\* Title, Company, Location, Description in that order joined by " | ", with
\* the segment of every empty field left out (so no label without content and
\* no leading, trailing or doubled delimiter), and composing the same record
\* again gives the same text.
C21_ComposedTextOmitsEmptyFields ==
    /\ [](/\ (program = "embedding_generator" /\ job_row # None) =>
                combined_text = ComposedText("Job Title: ", job_row,
                                             limited(job_row.description, DescriptionLimit))
          /\ (program = "data_preprocessor" /\ clean_calls > 0) =>
                \A i \in 1..Len(jobs_data) :
                   jobs_data[i].clean_text =
                      ComposedText("Title: ", jobs_data[i], jobs_data[i].description))
    /\ [][(job_row # None /\ job_row' = job_row) => combined_text' = combined_text]_vars

\* The description segment of a composed text: what follows its label.
DescriptionPart(text) ==
    LET at == { i \in 1..Len(text) : text[i] = "Description: " }
    IN IF at = {} THEN <<>>
       ELSE SubSeq(text, (CHOOSE i \in at : \A j \in at : i <= j) + 1, Len(text))

\* C22 (as claimed): the description included in a composed job text is at
\* most 1000 characters long and the resume text passed to the embedding
\* model at most 2000 characters; a text within its limit is included
\* unchanged.
C22_TextsWithinLimits ==
    /\ (program = "embedding_generator" /\ job_row # None) =>
          /\ StrLen(DescriptionPart(combined_text)) <= DescriptionLimit
          /\ (/\ ~Absent(job_row.description, <<"No Description">>)
              /\ StrLen(job_row.description) <= DescriptionLimit)
             => DescriptionPart(combined_text) = job_row.description
    /\ (program = "embedding_generator" /\ resume_text # None) =>
          /\ StrLen(encoded_text) <= ResumeLimit
          /\ StrLen(resume_text) <= ResumeLimit => encoded_text = resume_text

\* ---------------------------------------------------------------------
\* Properties of the matcher's methods called one by one
\* ---------------------------------------------------------------------

aliases == { "St. Louis", "St Louis", "KC" }

\* An alias stands in the location as a word of its own: "KC" in "KC, MO",
\* not in "OKC, OK".
IsLetters(c) == ~IsSpace(c) /\ c # ","

AliasAt(location, i) ==
    /\ location[i] \in aliases
    /\ i = 1 \/ ~IsLetters(location[i - 1])
    /\ i = Len(location) \/ ~IsLetters(location[i + 1])

Canonical(location) ==
    [i \in 1..Len(location) |->
        IF AliasAt(location, i) THEN ReplaceLocation(location[i]) ELSE location[i]]

\* C24: fix_locations replaces each configured alias by its canonical name
\* and returns every location without an alias unchanged.
C24_OnlyAliasesAreRewritten ==
    method_called = "fix_locations" => method_result = Canonical(method_argument)

C24_AliasReplaced ==
    /\ method_called = "fix_locations"
    /\ method_argument = <<"St. Louis", ",", " ", "MO">>
    /\ method_result = <<"Saint Louis", ",", " ", "MO">>

\* The phrase is spelled somewhere in the text, in any letter case.
Contains(text, phrase) ==
    \E i \in 1..Len(text) : \E k \in i..Len(text) :
        Concat(lower(SubSeq(text, i, k))) = phrase

\* C25: the description returned by clean_description contains none of the
\* boilerplate phrases, in any letter case.
C25_NoBoilerplateLeft ==
    method_called = "clean_description" =>
        \A p \in 1..Len(boilerplate) : ~Contains(method_result, boilerplate[p])

C25_PhraseRemoved ==
    /\ method_called = "clean_description"
    /\ method_argument = <<"Apply", " ", "NOW", " ", Word25>>
    /\ method_result = <<Word25>>

\* ---------------------------------------------------------------------
\* Properties of the pipeline's embeddings
\* ---------------------------------------------------------------------

\* C26: whenever stage 4 has computed scores, job_embeddings holds one vector
\* per record of the current processed_jobs and vector i is the vector of the
\* current processed_jobs[i].
C26_NoStaleVectors ==
    (program = "pipeline" /\ last_call = "stage4" /\ last_returned \in {"True", "raised"}) =>
        /\ Len(job_embeddings) = Len(processed_jobs)
        /\ \A i \in 1..Len(job_embeddings) :
              job_embeddings[i] = embedding_of(processed_jobs[i])

\* C27: get_top_jobs ranks only similarities computed on the loaded data:
\* after a calculate_similarities that returned False it returns no entries;
\* after one that returned True similarities holds one entry per job
\* embedding and per job record, entry i being the score of embedding i.
C27_RankingFollowsLoadedData ==
    (program = "job_matcher" /\ last_call = "get_top_jobs") =>
        /\ calculated = "False" => (last_returned = "list" /\ top_jobs = <<>>)
        /\ calculated = "True" =>
              /\ Len(similarities) = Len(m_job_embeddings)
              /\ Len(similarities) = Len(m_job_data)
              /\ \A i \in 1..Len(similarities) :
                    similarities[i] = similarity(m_resume_embedding, m_job_embeddings[i])

\* ---------------------------------------------------------------------
\* The two rankers compared
\* ---------------------------------------------------------------------

AtLeastZero(n) == IF n > 0 THEN n ELSE 0

\* What get_top_jobs returns for the scores stage 4 computed and its top_n.
MatcherOnStage4Scores ==
    top_jobs_of([i \in 1..Len(job_embeddings) |->
                    similarity(resume_embedding, job_embeddings[i])],
                [i \in 1..Len(job_embeddings) |-> JobRow(i)],
                stage4_top_n)

\* C28: run_stage4_similarity_matching selects the jobs get_top_jobs selects
\* for the same scores and top_n, in the same order and with the same ranks,
\* and both return min(max(top_n, 0), N) entries.
C28_RankersAgree ==
    /\ (program = "job_matcher" /\ top_jobs_returned) =>
          Len(top_jobs) = min(AtLeastZero(top_n_asked), Len(similarities))
    /\ (program = "pipeline" /\ stage4_returned = "True") =>
          /\ Len(top_matches) = min(AtLeastZero(stage4_top_n), Len(job_embeddings))
          /\ Len(top_matches) = Len(MatcherOnStage4Scores)
          /\ \A k \in 1..Len(top_matches) :
                /\ top_matches[k].job_index = MatcherOnStage4Scores[k].row
                /\ match_data[k].rank = MatcherOnStage4Scores[k].rank

\* ---------------------------------------------------------------------
\* Properties of the API collector
\* ---------------------------------------------------------------------

\* C29: after every return of collect_all_jobs no two jobs of self.jobs have
\* the same (title.lower(), company.lower()), and the jobs kept by the
\* earlier calls are still there, in their places.
C29_CollectorKeepsFirstOfEachIdentifier ==
    /\ [](collect_returned = "list" =>
            \A i, j \in 1..Len(collector_jobs) :
               collector_identifier(collector_jobs[i]) = collector_identifier(collector_jobs[j])
                  => i = j)
    /\ [][collect_returned' = "list" =>
            /\ Len(collector_jobs) <= Len(collector_jobs')
            /\ SubSeq(collector_jobs', 1, Len(collector_jobs)) = collector_jobs]_vars

C29_Witness ==
    /\ collect_returned = "list"
    /\ Len(collector_jobs) = 2
    /\ collector_jobs[1] = [title |-> <<"A">>, company |-> <<"c">>, source |-> "RemoteOK"]
    /\ collector_jobs[2].title = <<"b">>

\* ---------------------------------------------------------------------
\* Properties of stage 1's main
\* ---------------------------------------------------------------------

\* C30: step3_combine_data returns a (jobs, filename) pair for every input,
\* the two empty lists included, so main goes on to the summary of step 5 and
\* never enters its generic error handler.
C30_Step3ReturnsPair ==
    step3_returned # "none" => (step3_returned = "pair" /\ main_pc # "error")

====
